---- MODULE Spec2Model ----
(***************************************************************************)
(* Model of src/subdomain_enum.py: the bounded-concurrency DNS enumeration  *)
(* engine (run_enum), its resolver tasks (resolve), the wordlist loader     *)
(* (load_words) and the command-line entry point (main).                    *)
(*                                                                          *)
(* Strings are sequences of one-character strings, so that str.strip, the   *)
(* f-string join and sorted() are computed character by character.          *)
(*                                                                          *)
(* Scheduling is that of asyncio on one event loop: a task body runs        *)
(* without interruption from one await to the next.  A resolver task has   *)
(* two suspension points (the semaphore's acquire, the wait_for around      *)
(* getaddrinfo); run_enum has one (the await inside the as_completed loop). *)
(* The console progress lines printed inside the loop are not modelled.     *)
(***************************************************************************)
EXTENDS Integers, Sequences, FiniteSets, TLC

\* ------------------------------------------------------------------ bounds

\* Longest candidate list (and wordlist file, in lines).
MaxCands == 3
\* Longest candidate list tried with a base domain other than the plain one:
\* the domain enters a run only through each task's own fqdn.
MaxCandsOther == 1
\* Largest --concurrency value tried; the smallest is -1.
MaxConc == 2
MaxCandsAgain == 2

\* ----------------------------------------------------------------- strings

\* Raw candidate strings: empty, blank, a plain label, the same label padded
\* with whitespace, and a second label written with a leading dot.
Words ==
  { <<>>, <<" ">>, <<"a">>, <<" ", "a", " ">>, <<".", "b">> }

\* Base domains: a plain one and one written with the root's trailing dot.
Domains == { <<"d">>, <<"d", ".">> }

\* The characters str.strip() removes when called without an argument.
Whitespace == { " " }

\* Code point of a character, as Python compares strings.
Ord(c) ==
  CASE c = " " -> 32
    [] c = "." -> 46
    [] c = "a" -> 97
    [] c = "b" -> 98
    [] c = "d" -> 100

RECURSIVE LStrip(_, _)
LStrip(s, chars) ==
  IF s # <<>> /\ Head(s) \in chars THEN LStrip(Tail(s), chars) ELSE s

RECURSIVE RStrip(_, _)
RStrip(s, chars) ==
  IF s # <<>> /\ s[Len(s)] \in chars
  THEN RStrip(SubSeq(s, 1, Len(s) - 1), chars)
  ELSE s

\* str.strip(chars): both ends.
Strip(s, chars) == RStrip(LStrip(s, chars), chars)

\* Python's < on strings: by code point, a proper prefix first.
RECURSIVE StrLess(_, _)
StrLess(s, t) ==
  IF t = <<>> THEN FALSE
  ELSE IF s = <<>> THEN TRUE
  ELSE IF Head(s) # Head(t) THEN Ord(Head(s)) < Ord(Head(t))
  ELSE StrLess(Tail(s), Tail(t))

Range(q) == { q[i] : i \in DOMAIN q }

\* sorted(S) of a set of strings.
RECURSIVE Sorted(_)
Sorted(S) ==
  IF S = {} THEN <<>>
  ELSE LET m == CHOOSE x \in S : \A y \in S \ {x} : StrLess(x, y)
       IN  <<m>> \o Sorted(S \ {m})

\* [f(x) for x in q if keep(x)] for f = strip and keep = bool(strip).
RECURSIVE StripNonBlank(_)
StripNonBlank(q) ==
  IF q = <<>> THEN <<>>
  ELSE LET w == Strip(Head(q), Whitespace)
       IN  (IF w # <<>> THEN <<w>> ELSE <<>>) \o StripNonBlank(Tail(q))

\* ------------------------------------------------------------------ inputs

\* The candidate lists of the calls of a sequence of calls.
RepeatWords == { <<" ">>, <<"a">>, <<".", "b">> }

RepeatLists == UNION { [1..n -> RepeatWords] : n \in 0..MaxCandsAgain }

FairLists == UNION { [1..n -> RepeatWords] : n \in 0..MaxCands }

CandLists == UNION { [1..n -> Words] : n \in 0..MaxCands }

\* The candidate lists tried with base domain dom.
CandListsFor(dom) ==
  IF dom = <<"d">> THEN CandLists
  ELSE { l \in CandLists : Len(l) <= MaxCandsOther }

\* --concurrency is type=int: zero and negative values are accepted.
Concurrencies == -1..MaxConc

\* --timeout, in clock units: not positive (zero), or positive (one unit).
Timeouts == { 0, 1 }

\* How long a lookup takes before the resolver answers: less than a positive
\* timeout, or not.
Durations == { 0, 1 }

\* What loop.getaddrinfo answers when it is left to finish: address records,
\* or socket.gaierror (NXDOMAIN, no records, resolver or network failure).
Answers == { "addrinfo", "gaierror" }

\* ------------------------------------------------------------------- state

VARIABLES
  caller,       \* "main" (the CLI) or "direct" (run_enum called by other code)
  wordfile,     \* the --wordlist file: [readable, lines (those still unread)];
                \* no file (unreadable, no lines) when the caller is not main
  domain,       \* run_enum's domain
  words,        \* run_enum's words
  concurrency,  \* run_enum's concurrency
  timeout,      \* run_enum's timeout
  pc,           \* where the main line of control is
  error,        \* the exception that ended the run, "" when none
  sem,          \* the asyncio.Semaphore: [made, value, waiters]
  word_list,    \* run_enum's word_list
  tfqdn,        \* per task: resolve's fqdn
  tpc,          \* per task: "created", "waiting", "lookup", "done"
  ret,          \* per task: how wait_for(getaddrinfo) ended, "pending" before
  outcome,      \* per task: what the task returned or raised
  doneQ,        \* as_completed's queue: finished tasks not yet consumed
  hits,         \* run_enum's hits
  completed,    \* run_enum's completed
  total,        \* run_enum's total
  result,       \* run_enum's return value
  out           \* what main printed after the run: [done, lines, count]

vars ==
  << caller, wordfile, domain, words, concurrency, timeout, pc, error, sem,
     word_list, tfqdn, tpc, ret, outcome, doneQ, hits, completed, total,
     result, out >>

inputs == << caller, wordfile, domain, concurrency, timeout >>

Tasks == 1..Len(tpc)

NoSem == [made |-> FALSE, value |-> 0, waiters |-> <<>>]

NoOutcome == [kind |-> "pending", fqdn |-> <<>>, ok |-> FALSE]

NoOutput == [done |-> FALSE, lines |-> <<>>, count |-> 0]

\* ------------------------------------------------------------------ resolve

\* A faulty join: the f-string without .strip(".").
FqdnUnstripped(sub, dom) == sub \o <<".">> \o dom

\* fqdn = f"{sub}.{domain}".strip(".")
Fqdn(sub, dom) == Strip(sub \o <<".">> \o dom, {"."})

\* asyncio.wait_for(fut, timeout): the future's own result or exception when
\* it is done within the timeout, TimeoutError otherwise (a timeout <= 0
\* with the future not yet done raises at once).  For the task the lookup is
\* over either way; the executor thread that a timeout leaves behind in
\* socket.getaddrinfo is not part of the state.
WaitFor(ans, dur, tmo) == IF dur < tmo THEN ans ELSE "TimeoutError"

\* A faulty handler: "except socket.gaierror", which lets TimeoutError pass.
CaughtGaiErrorOnly(r) == r = "gaierror"

\* A faulty handler: "except asyncio.TimeoutError", which lets gaierror pass.
CaughtTimeoutOnly(r) == r = "TimeoutError"

\* The exceptions the handler "except Exception" catches.
Caught(r) == r \in { "gaierror", "TimeoutError" }

\* The try statement of resolve: what the task returns, or raises.
TryLookup(fqdn, r) ==
  IF r = "addrinfo" THEN [kind |-> "result", fqdn |-> fqdn, ok |-> TRUE]
  ELSE IF Caught(r) THEN [kind |-> "result", fqdn |-> fqdn, ok |-> FALSE]
  ELSE [kind |-> "exception", fqdn |-> fqdn, ok |-> FALSE]

\* A faulty admission test: off by one, it admits a task at value 0.
LockedOffByOne(s) == s.value < 0 \/ s.waiters # <<>>

\* Semaphore.locked(): no permit free, or somebody is queued already.
Locked(s) == s.value = 0 \/ s.waiters # <<>>

\* A different entry: the timeout put around the acquire as well, seen at
\* its expiry: a task that finds no permit gives up instead of queueing.
RECURSIVE EnterOrGiveUp(_, _, _)
EnterOrGiveUp(s, p, t) ==
  IF t > Len(p) THEN << s, p >>
  ELSE IF Locked(s)
       THEN EnterOrGiveUp(s, [p EXCEPT ![t] = "done"], t + 1)
       ELSE EnterOrGiveUp([s EXCEPT !.value = @ - 1],
                          [p EXCEPT ![t] = "lookup"], t + 1)

\* "async with semaphore" on entry, for the tasks t..Len(p) in the order
\* they were created: each takes a permit and goes on to its lookup, or
\* queues behind the earlier waiters.
RECURSIVE Enter(_, _, _)
Enter(s, p, t) ==
  IF t > Len(p) THEN << s, p >>
  ELSE IF Locked(s)
       THEN Enter([s EXCEPT !.waiters = Append(@, t)],
                  [p EXCEPT ![t] = "waiting"], t + 1)
       ELSE Enter([s EXCEPT !.value = @ - 1],
                  [p EXCEPT ![t] = "lookup"], t + 1)

\* A faulty exit: acquire and release written out by hand with the release
\* after the lookup, so that an exception skips it.
ExitOnSuccessOnly(s, p, r) ==
  IF r # "addrinfo" THEN << s, p >>
  ELSE IF s.waiters = <<>>
       THEN << [s EXCEPT !.value = @ + 1], p >>
       ELSE << [s EXCEPT !.waiters = Tail(@)],
               [p EXCEPT ![Head(s.waiters)] = "lookup"] >>

\* A faulty exit: release() called in the body as well as by the
\* "async with", so that a permit comes back twice.
ExitTwice(s, p, r) ==
  IF s.waiters = <<>>
  THEN << [s EXCEPT !.value = @ + 2], p >>
  ELSE << [s EXCEPT !.waiters = Tail(@), !.value = @ + 1],
          [p EXCEPT ![Head(s.waiters)] = "lookup"] >>

\* A faulty exit: the permit given back without waking a waiter.
ExitNoWakeup(s, p, r) == << [s EXCEPT !.value = @ + 1], p >>

\* "async with semaphore" on exit, reached on return and on exception alike:
\* release() gives the permit back and wakes the first waiter, which takes it.
Exit(s, p, r) ==
  IF s.waiters = <<>>
  THEN << [s EXCEPT !.value = @ + 1], p >>
  ELSE << [s EXCEPT !.waiters = Tail(@)],
          [p EXCEPT ![Head(s.waiters)] = "lookup"] >>

\* ----------------------------------------------------------------- run_enum

\* A faulty filter: [w.strip() for w in words], blank entries kept.
WordListUnfiltered(q) == [i \in DOMAIN q |-> Strip(q[i], Whitespace)]

\* word_list = [w.strip() for w in words if w.strip()]
\* A different filter: duplicates removed before the lookups.
WordListDistinct(q) == Sorted(Range(StripNonBlank(q)))

WordList(q) == StripNonBlank(q)

\* A faulty loop body: hits.append(fqdn) whatever ok is.
AccumulateAlways(h, o) == Append(h, o.fqdn)

\* The body of the loop after the await: hits.append(fqdn) if ok.
Accumulate(h, o) == IF o.ok THEN Append(h, o.fqdn) ELSE h

\* list(dict.fromkeys(h)): the first occurrence of each element, in order.
RECURSIVE FirstSeen(_)
FirstSeen(h) ==
  IF h = <<>> THEN <<>>
  ELSE LET r == FirstSeen(SubSeq(h, 1, Len(h) - 1))
       IN  IF h[Len(h)] \in Range(r) THEN r ELSE Append(r, h[Len(h)])

\* sorted(h) of a list, duplicates kept.
RECURSIVE SortedList(_)
SortedList(h) ==
  IF h = <<>> THEN <<>>
  ELSE LET i == CHOOSE k \in DOMAIN h :
                  \A j \in DOMAIN h : ~StrLess(h[j], h[k])
       IN  <<h[i]>> \o
           SortedList(SubSeq(h, 1, i - 1) \o SubSeq(h, i + 1, Len(h)))

\* A faulty return: sorted(hits), the set() forgotten.
FinalizeWithDuplicates(h) == SortedList(h)

\* A faulty return: the hits deduplicated but left in completion order.
FinalizeUnsorted(h) == FirstSeen(h)

\* sorted(set(hits))
Finalize(h) == Sorted(Range(h))

\* A faulty accumulator: one list kept across calls (a module-level list or
\* a mutable default argument).
NewHitsShared(prev) == prev

\* hits: List[str] = []: a new list on every call, whatever list prev an
\* earlier call built.
NewHits(prev) == <<>>

\* asyncio.as_completed(tasks): the task the loop's await yields next, given
\* the finished tasks q not yet yielded, in finish order, and the number n
\* already yielded; 0 while the await has to wait.
\* A different loop: the tasks awaited in the order they were created.
YieldedInLaunchOrder(q, n) == IF n + 1 \in Range(q) THEN n + 1 ELSE 0

Yielded(q, n) == IF q = <<>> THEN 0 ELSE Head(q)

\* The for loop over as_completed(tasks) ends when all n tasks were yielded.
\* A faulty loop end: one task short.
LoopExhaustedOneEarly(c, n) == c >= n - 1

LoopExhausted(c, n) == c = n

\* --------------------------------------------------------------- load_words

\* [line.strip() for line in f if line.strip()]
FileWords(lines) == StripNonBlank(lines)

\* A faulty read: the error swallowed and the file taken as empty.
OpenedAlways(f) == TRUE

\* open(path, "r", ...): returns the file if it can be read; otherwise
\* OSError is raised, which neither load_words nor main catches.
Opened(f) == f.readable

\* ----------------------------------------------------------------- actions

\* load_words: the file is read to its end, one stripped entry per non-blank
\* line; open() raises OSError when the file cannot be read.
LoadWords ==
  /\ pc = "main"
  /\ IF Opened(wordfile)
     THEN /\ words' = FileWords(wordfile.lines)
          /\ wordfile' = [wordfile EXCEPT !.lines = <<>>]
          /\ pc' = "call"
          /\ error' = error
     ELSE /\ pc' = "failed"
          /\ error' = "OSError"
          /\ UNCHANGED << wordfile, words >>
  /\ UNCHANGED << caller, domain, concurrency, timeout, sem, word_list, tfqdn, tpc, ret, outcome, doneQ,
                  hits, completed, total, result, out >>

\* run_enum up to its loop: the semaphore (asyncio.Semaphore raises
\* ValueError for a negative value), the filtered word_list, one task per
\* entry, the empty hits and the counters.
RunEnum ==
  /\ pc = "call"
  /\ IF concurrency < 0
     THEN /\ pc' = "failed"
          /\ error' = "ValueError"
          /\ UNCHANGED << sem, word_list, tfqdn, tpc, ret, outcome, hits,
                          completed, total >>
     ELSE LET wl == WordList(words) IN
          /\ sem' = [made |-> TRUE, value |-> concurrency, waiters |-> <<>>]
          /\ word_list' = wl
          /\ tfqdn' = [i \in 1..Len(wl) |-> Fqdn(wl[i], domain)]
          /\ tpc' = [i \in 1..Len(wl) |-> "created"]
          /\ ret' = [i \in 1..Len(wl) |-> "pending"]
          /\ outcome' = [i \in 1..Len(wl) |-> NoOutcome]
          /\ hits' = NewHits(hits)
          /\ completed' = 0
          /\ total' = Len(wl)
          /\ pc' = "loop"
          /\ error' = error
  /\ UNCHANGED << inputs, words, doneQ, result, out >>

\* The loop's first await hands control to the event loop, which runs every
\* created task, in creation order, up to its first suspension.
StartTasks ==
  /\ pc = "loop"
  /\ LET e == Enter(sem, tpc, 1) IN
       /\ sem' = e[1]
       /\ tpc' = e[2]
  /\ pc' = "drain"
  /\ UNCHANGED << inputs, words, error, word_list, tfqdn, ret, outcome,
                  doneQ, hits, completed, total, result, out >>

\* A different task body: resolve itself appends its name to the shared
\* list and counts, instead of returning the outcome to the loop.
FinishLookupAppending(t) ==
  /\ pc = "drain"
  /\ tpc[t] = "lookup"
  /\ \E ans \in Answers, dur \in Durations :
       LET r == WaitFor(ans, dur, timeout)
           x == Exit(sem, [tpc EXCEPT ![t] = "done"], r)
       IN  /\ ret' = [ret EXCEPT ![t] = r]
           /\ outcome' = [outcome EXCEPT ![t] = TryLookup(tfqdn[t], r)]
           /\ sem' = x[1]
           /\ tpc' = x[2]
           /\ hits' = Accumulate(hits, TryLookup(tfqdn[t], r))
  /\ doneQ' = Append(doneQ, t)
  /\ UNCHANGED << inputs, words, pc, error, word_list, tfqdn,
                  completed, total, result, out >>

\* Task t's wait_for ends (answer in time, or timeout); the try statement
\* turns it into the task's outcome, the semaphore is left, the task is done
\* and as_completed queues it.
FinishLookup(t) ==
  /\ pc = "drain"
  /\ tpc[t] = "lookup"
  /\ \E ans \in Answers, dur \in Durations :
       LET r == WaitFor(ans, dur, timeout)
           x == Exit(sem, [tpc EXCEPT ![t] = "done"], r)
       IN  /\ ret' = [ret EXCEPT ![t] = r]
           /\ outcome' = [outcome EXCEPT ![t] = TryLookup(tfqdn[t], r)]
           /\ sem' = x[1]
           /\ tpc' = x[2]
  /\ doneQ' = Append(doneQ, t)
  /\ UNCHANGED << inputs, words, pc, error, word_list, tfqdn, hits,
                  completed, total, result, out >>

\* One iteration of the as_completed loop: "fqdn, ok = await coro" takes the
\* task that finished first (or re-raises what it raised), then the counter
\* and the hits.
Consume ==
  /\ pc = "drain"
  /\ LET c == Yielded(doneQ, completed) IN
       /\ c # 0
       /\ IF outcome[c].kind = "exception"
          THEN /\ pc' = "failed"
               /\ error' = ret[c]
               /\ UNCHANGED << hits, completed >>
          ELSE /\ completed' = completed + 1
               /\ hits' = Accumulate(hits, outcome[c])
               /\ UNCHANGED << pc, error >>
       /\ doneQ' = SelectSeq(doneQ, LAMBDA x : x # c)
  /\ UNCHANGED << inputs, words, sem, word_list, tfqdn, tpc, ret, outcome,
                  total, result, out >>

\* return sorted(set(hits)), once as_completed has yielded every task.
Return ==
  /\ pc = "drain"
  /\ LoopExhausted(completed, total)
  /\ result' = Finalize(hits)
  /\ pc' = "returned"
  /\ UNCHANGED << inputs, words, error, sem, word_list, tfqdn, tpc, ret,
                  outcome, doneQ, hits, completed, total, out >>

\* main after asyncio.run: one line per hit, then the count.
PrintHits ==
  /\ pc = "returned"
  /\ caller = "main"
  /\ out' = [done |-> TRUE, lines |-> result, count |-> Len(result)]
  /\ pc' = "printed"
  /\ UNCHANGED << inputs, words, error, sem, word_list, tfqdn, tpc, ret,
                  outcome, doneQ, hits, completed, total, result >>

\* ------------------------------------------------------------ specification

Init ==
  /\ caller \in { "main", "direct" }
  /\ domain \in Domains
  /\ concurrency \in Concurrencies
  /\ timeout \in Timeouts
  /\ IF caller = "main"
     THEN /\ wordfile \in
               { [readable |-> TRUE, lines |-> l] : l \in CandListsFor(domain) }
                 \cup { [readable |-> FALSE, lines |-> <<>>] }
          /\ words = <<>>
          /\ pc = "main"
     ELSE /\ wordfile = [readable |-> FALSE, lines |-> <<>>]
          /\ words \in CandListsFor(domain)
          /\ pc = "call"
  /\ error = ""
  /\ sem = NoSem
  /\ word_list = <<>>
  /\ tfqdn = <<>>
  /\ tpc = <<>>
  /\ ret = <<>>
  /\ outcome = <<>>
  /\ doneQ = <<>>
  /\ hits = <<>>
  /\ completed = 0
  /\ total = 0
  /\ result = <<>>
  /\ out = NoOutput

Next ==
  \/ LoadWords
  \/ RunEnum
  \/ StartTasks
  \/ \E t \in Tasks : FinishLookup(t)
  \/ Consume
  \/ Return
  \/ PrintHits

Spec == Init /\ [][Next]_vars

\* Every lookup that has started ends: getaddrinfo answers or fails, or
\* wait_for's timer fires, and the event loop then runs the task on to its
\* return and its release of the permit.
LookupsEnd == \A t \in 1..MaxCands : WF_vars(t \in Tasks /\ FinishLookup(t))

\* run_enum called once by other code. Queueing for a permit does not
\* depend on how a candidate is spelt, so the lists are drawn from the
\* smaller set of words, up to the full length.
InitFair ==
  /\ Init
  /\ caller = "direct"
  /\ domain = <<"d">>
  /\ words \in FairLists

NextFair ==
  \/ RunEnum
  \/ StartTasks
  \/ \E t \in Tasks : FinishLookup(t)
  \/ Consume
  \/ Return

SpecFair == InitFair /\ [][NextFair]_vars /\ LookupsEnd

\* ------------------------------------------------- run_enum called repeatedly

\* run_enum called by other code any number of times in one process: after a
\* call has returned or raised, the next one gets a candidate list and a capacity of
\* its own; what the previous call left in the variables stays until the
\* new call's own statements replace it.
CallAgain ==
  /\ pc \in { "returned", "failed" }
  /\ caller = "direct"
  /\ words' \in RepeatLists
  /\ concurrency' \in Concurrencies
  /\ pc' = "call"
  /\ UNCHANGED << caller, wordfile, domain, timeout, error, sem, word_list,
                  tfqdn, tpc, ret, outcome, doneQ, hits, completed, total,
                  result, out >>

InitRepeat ==
  /\ Init
  /\ caller = "direct"
  /\ domain = <<"d">>
  /\ words \in RepeatLists

NextRepeat ==
  \/ RunEnum
  \/ StartTasks
  \/ \E t \in Tasks : FinishLookup(t)
  \/ Consume
  \/ Return
  \/ CallAgain

SpecRepeat == InitRepeat /\ [][NextRepeat]_vars

\* ------------------------------------------------------------------ claims

\* Tasks inside "async with semaphore": in the network-I/O phase.
InFlight == Cardinality({ t \in Tasks : tpc[t] = "lookup" })

Returned == pc \in { "returned", "printed" }

Negative == { "gaierror", "TimeoutError" }

C2_NoPermitLeak ==
  sem.made =>
    /\ sem.value >= 0
    /\ sem.value + InFlight = concurrency
    /\ \A t \in Tasks : outcome[t].kind # "pending" => tpc[t] = "done"
    /\ Returned => sem.value = concurrency

\* C2 witness: run_enum has returned with all permits free after lookups
\* that ended in each way: an answer, a resolver failure, a timeout.
C2_Witness ==
  /\ Returned
  /\ concurrency >= 1
  /\ sem.value = concurrency
  /\ \A r \in { "addrinfo", "gaierror", "TimeoutError" } :
       \E t \in Tasks : ret[t] = r

\* C3: a finished resolver task has returned (fqdn, ok), never raised; ok is
\* true exactly when the lookup answered with addresses, which it can only
\* do within a positive timeout; and no lookup's exception ends the run.
C3_UniformOutcome ==
  /\ \A t \in Tasks :
       /\ tpc[t] = "done" =>
            /\ outcome[t] =
                 [kind |-> "result", fqdn |-> tfqdn[t],
                  ok |-> (ret[t] = "addrinfo")]
            /\ ret[t] = "addrinfo" => timeout > 0
       /\ tpc[t] # "done" => outcome[t] = NoOutcome
  /\ error \notin Negative

\* C3 witness: three finished tasks, one per way a lookup ends, the timed-out
\* one and the failed one negative, the answered one positive.
C3_Witness ==
  /\ \E t \in Tasks : tpc[t] = "done" /\ ret[t] = "TimeoutError" /\ ~outcome[t].ok
  /\ \E t \in Tasks : tpc[t] = "done" /\ ret[t] = "gaierror" /\ ~outcome[t].ok
  /\ \E t \in Tasks : tpc[t] = "done" /\ ret[t] = "addrinfo" /\ outcome[t].ok

\* C4: negative outcomes never abort the batch.  A run that launched tasks
\* never ends in an exception; while outcomes are being drained every
\* unfinished task is still waiting or in its lookup; and when run_enum has
\* returned, every launched task has run its lookup and been consumed.
C4_BatchNeverAborted ==
  /\ pc = "failed" => tpc = <<>>
  /\ pc = "drain" =>
       \A t \in Tasks : ret[t] = "pending" => tpc[t] \in { "waiting", "lookup" }
  /\ Returned =>
       /\ \A t \in Tasks : tpc[t] = "done" /\ ret[t] # "pending"
       /\ doneQ = <<>>
       /\ completed = Len(tpc)

\* C4 witness: run_enum has returned a hit although other lookups of the
\* batch failed and timed out.
C4_Witness ==
  /\ pc = "returned"
  /\ result # <<>>
  /\ \E t \in Tasks : ret[t] = "gaierror"
  /\ \E t \in Tasks : ret[t] = "TimeoutError"

\* C5 (as claimed): a run of main that has loaded its wordlist always goes
\* on to print the result list and the count; stated for finite runs, such a
\* run is never at a point other than the printed one from which no step is
\* possible.
C5_RunAlwaysCompletes ==
  (caller = "main" /\ pc \notin { "main" } /\ error # "OSError") =>
    (pc = "printed" \/ ENABLED Next)

\* The positive outcomes of the finished tasks, as a set of FQDNs.
Resolved ==
  { outcome[t].fqdn : t \in { u \in Tasks : outcome[u].kind = "result"
                                            /\ outcome[u].ok } }

\* C6: what run_enum returns holds exactly the FQDNs whose lookup succeeded
\* (those of tasks whose wait_for returned addresses), and main prints that
\* list and its length.
C6_ExactlyTheResolved ==
  /\ Returned =>
       /\ Range(result) = Resolved
       /\ Range(result) = { tfqdn[t] : t \in { u \in Tasks : ret[u] = "addrinfo" } }
  /\ pc = "printed" =>
       /\ out.lines = result
       /\ out.count = Cardinality(Resolved)

\* C6 witness: the scenario of two candidates resolving and a third not:
\* the result is [a.d, b.d], printed with count 2.
C6_Witness ==
  /\ pc = "printed"
  /\ domain = <<"d">>
  /\ out.lines = << <<"a", ".", "d">>, <<"b", ".", "d">> >>
  /\ out.count = 2
  /\ \E t \in Tasks : ret[t] = "gaierror"

\* trim(c) + "." + domain for the candidates c that are not blank.
JoinedCandidates ==
  { Strip(words[i], Whitespace) \o <<".">> \o domain :
      i \in { j \in DOMAIN words : Strip(words[j], Whitespace) # <<>> } }

\* C7 (as claimed): every element of the result is trim(c) + "." + domain for
\* some non-blank candidate c.
C7_ResultWithinJoined ==
  Returned => \A x \in Range(result) : x \in JoinedCandidates

\* C7 (amended): every element of the result is trim(c) + "." + domain with
\* its leading and trailing dots removed, for some non-blank candidate c.
C7_ResultWithinStripped ==
  Returned =>
    \A x \in Range(result) : x \in { Strip(y, {"."}) : y \in JoinedCandidates }

\* C7 witness: a candidate written with a leading dot resolved, and the
\* result holds its name without that dot.
C7_Witness ==
  /\ pc = "returned"
  /\ \E i \in DOMAIN words : words[i] = <<".", "b">>
  /\ \E k \in DOMAIN result : result[k] = <<"b", ".", "d">>

\* C8: the result holds no FQDN twice.
C8_NoDuplicates ==
  Returned =>
    \A i, j \in DOMAIN result : i # j => result[i] # result[j]

\* C8 witness: three candidates equal after trimming all resolved, and the
\* result has the one entry.
C8_Witness ==
  /\ pc = "returned"
  /\ Len(hits) = 3
  /\ \A i \in DOMAIN hits : hits[i] = hits[1]
  /\ \E i \in DOMAIN words : words[i] = <<" ", "a", " ">>
  /\ Len(result) = 1

\* C9: the result is in ascending lexicographic order.
C9_Ascending ==
  Returned =>
    \A i, j \in DOMAIN result : i < j => StrLess(result[i], result[j])

\* C9 witness: the later name finished first (hits are b.d then a.d) and the
\* result is a.d, b.d.
C9_Witness ==
  /\ pc = "returned"
  /\ hits = << <<"b", ".", "d">>, <<"a", ".", "d">> >>
  /\ result = << <<"a", ".", "d">>, <<"b", ".", "d">> >>

\* The positions of the candidates that are not blank: those with a
\* character that is not whitespace.
NonBlank ==
  { i \in DOMAIN words : \E k \in DOMAIN words[i] : words[i][k] \notin Whitespace }

\* C10: blank candidates are dropped before any task exists: there is one
\* task per non-blank candidate and each task's label is non-empty and
\* trimmed, so that tasks, permits and lookups go to non-blank candidates
\* only; the result has no more entries than there are non-blank
\* candidates, each the name of a task.
C10_BlankDiscarded ==
  sem.made =>
    LET n == Cardinality(NonBlank)
    IN  /\ Len(tpc) = n
        /\ total = n
        /\ \A t \in Tasks :
             /\ word_list[t] # <<>>
             /\ Head(word_list[t]) \notin Whitespace
             /\ word_list[t][Len(word_list[t])] \notin Whitespace
        /\ Len(sem.waiters) + InFlight <= n
        /\ Returned =>
             /\ Len(result) <= n
             /\ Range(result) \subseteq Range(tfqdn)

\* C10 witness: candidates "", " ", "a" with a resolving give exactly [a.d].
C10_Witness ==
  /\ pc = "returned"
  /\ words = << <<>>, <<" ">>, <<"a">> >>
  /\ domain = <<"d">>
  /\ Len(tpc) = 1
  /\ result = << <<"a", ".", "d">> >>

\* The names that resolved in this run: the resolver's answers, which no
\* scheduling decision chooses.
ResolvingNames == { tfqdn[t] : t \in { u \in Tasks : ret[u] = "addrinfo" } }

\* The one strictly ascending list of the elements of S.
Canonical(S) ==
  CHOOSE q \in [1..Cardinality(S) -> S] :
    \A i, j \in 1..Cardinality(S) : i < j => StrLess(q[i], q[j])

\* C11: the returned list is a function of the candidate list, the domain
\* and the resolver's answers alone: it is the one ascending list of the
\* names that resolved, whatever the order in which permits were taken and
\* tasks finished (the order recorded in hits), so two runs that agree on
\* the inputs and on the answers return the same list.
C11_ScheduleIndependent ==
  Returned =>
    /\ tfqdn = [t \in Tasks |-> Fqdn(word_list[t], domain)]
    /\ word_list = WordList(words)
    /\ result = Canonical(ResolvingNames)

\* C11 witness: two lookups in flight together finished in the order
\* opposite to the result's, next to one that timed out.
C11_Witness ==
  /\ pc = "returned"
  /\ concurrency = 2
  /\ total = 3
  /\ Len(hits) = 2
  /\ Len(result) = 2
  /\ hits[1] = result[2]
  /\ hits[2] = result[1]
  /\ \E t \in Tasks : ret[t] = "TimeoutError"

\* The distinct trimmed non-blank candidates.
DistinctCandidates == { Strip(words[i], Whitespace) : i \in NonBlank }

\* The tasks whose outcome exists, and those whose outcome the loop took.
Produced == { t \in Tasks : outcome[t].kind # "pending" }

Consumed == { t \in Produced : t \notin Range(doneQ) }

\* C12 (as claimed): at return the number of outcomes produced and consumed
\* is the number of distinct non-blank trimmed candidates.
C12_OnePerDistinct ==
  Returned =>
    /\ Cardinality(Produced) = Cardinality(DistinctCandidates)
    /\ completed = Cardinality(DistinctCandidates)

\* C12 (amended): at return the number of outcomes produced and consumed is
\* the number of non-blank candidates, each occurrence of a repeated
\* candidate counted: every occurrence has its own task and its own outcome.
C12_OnePerOccurrence ==
  Returned =>
    /\ Cardinality(Produced) = Cardinality(NonBlank)
    /\ Cardinality(Consumed) = Cardinality(NonBlank)
    /\ completed = Cardinality(NonBlank)
    /\ \A i \in 1..Len(word_list) : word_list[i] \in DistinctCandidates

\* C12 witness: the candidates "a" and " a " trim to the same word; the run
\* returned after two outcomes for it.
C12_Witness ==
  /\ pc = "returned"
  /\ words = << <<"a">>, <<" ", "a", " ">> >>
  /\ completed = 2
  /\ Cardinality(DistinctCandidates) = 1

\* C13: a run of main whose wordlist cannot be read ends at load_words with
\* the error: no limiter, no task, no lookup answer, no outcome consumed, no
\* result, no result line and no count, at any point of the run.
C13_UnreadableIsFatal ==
  (caller = "main" /\ ~wordfile.readable) =>
    /\ pc \in { "main", "failed" }
    /\ pc = "failed" => error = "OSError"
    /\ ~sem.made
    /\ tpc = <<>>
    /\ ret = <<>>
    /\ doneQ = <<>>
    /\ completed = 0
    /\ result = <<>>
    /\ out = NoOutput

\* C13 witness: main has stopped at the unreadable wordlist.
C13_Witness ==
  /\ caller = "main"
  /\ ~wordfile.readable
  /\ pc = "failed"
  /\ error = "OSError"

\* C14: outcomes are consumed in finish order: while the loop runs, a
\* finished task whose outcome is not yet consumed makes the loop's next
\* step possible at once, whatever earlier-launched tasks are still waiting
\* for a permit or in their lookup, and the outcome taken is that of the
\* task that finished first among those not yet consumed.
C14_NoHeadOfLineBlocking ==
  (pc = "drain" /\ doneQ # <<>>) =>
    /\ ENABLED Consume
    /\ Yielded(doneQ, completed) = Head(doneQ)
    /\ \A t \in Range(doneQ) : tpc[t] = "done" /\ outcome[t].kind # "pending"

\* C14 witness: the outcome of a later-launched task has been consumed and
\* that of another waits to be, while the first-launched task is still in
\* its lookup.
C14_Witness ==
  /\ pc = "drain"
  /\ total = 3
  /\ tpc[1] = "lookup"
  /\ completed = 1
  /\ doneQ # <<>>

\* C15: the result exists only once every task is complete: when run_enum
\* has returned, completed = total = the number of tasks launched, every
\* task has finished with an outcome that was consumed, no task waits for a
\* permit, holds one or is in a lookup; and while the loop still runs there
\* is no result.
C15_FinalizedAfterAll ==
  /\ Returned =>
       /\ completed = total
       /\ total = Len(tpc)
       /\ Consumed = Tasks
       /\ sem.waiters = <<>>
       /\ sem.value = concurrency
       /\ InFlight = 0
  /\ pc \in { "loop", "drain" } => result = <<>>

\* C15 witness: three tasks went through one permit in turn, the last two
\* having waited for it; the run returned after the third outcome.
C15_Witness ==
  /\ pc = "returned"
  /\ concurrency = 1
  /\ total = 3
  /\ completed = 3
  /\ result # <<>>

\* C16: every step moves each task forward only, created -> (waiting ->)
\* lookup -> done: a task enters its lookup once (one acquisition, one
\* attempt: a finished task never goes back, its answer and its outcome are
\* never replaced), each entry takes one permit and each finish gives one
\* back, the finish produces the outcome and queues the task once, and the
\* loop takes one queued outcome per iteration, never the same twice; at
\* the return every task has been through all of it.
C16_ExactlyOnce ==
  [][ LET entered == { u \in Tasks : tpc[u] # "lookup" /\ tpc'[u] = "lookup" }
          left == { u \in Tasks : tpc[u] = "lookup" /\ tpc'[u] # "lookup" }
      IN  /\ \A t \in Tasks :
                /\ tpc[t] = "created" => tpc'[t] \in { "created", "waiting", "lookup" }
                /\ tpc[t] = "waiting" => tpc'[t] \in { "waiting", "lookup" }
                /\ tpc[t] = "lookup" => tpc'[t] \in { "lookup", "done" }
                /\ tpc[t] = "done" =>
                     /\ tpc'[t] = "done"
                     /\ ret'[t] = ret[t]
                     /\ outcome'[t] = outcome[t]
                /\ tpc'[t] # "done" =>
                     /\ ret'[t] = "pending"
                     /\ outcome'[t] = NoOutcome
                     /\ t \notin Range(doneQ')
                /\ t \in left =>
                     /\ ret'[t] # "pending"
                     /\ outcome'[t].kind # "pending"
                     /\ doneQ' = Append(doneQ, t)
          /\ Cardinality(left) <= 1
          /\ sem.made => sem'.value - sem.value
                           = Cardinality(left) - Cardinality(entered)
          /\ doneQ' # doneQ =>
               \/ left # {}
               \/ /\ doneQ # <<>>
                  /\ doneQ' = Tail(doneQ)
                  /\ tpc' = tpc
                  /\ completed' = completed + 1 \/ pc' = "failed"
          /\ completed' # completed =>
               /\ completed' = completed + 1
               /\ doneQ # <<>>
               /\ doneQ' = Tail(doneQ)
          /\ pc' = "returned" =>
               /\ completed' = Len(tpc')
               /\ \A t \in Tasks : tpc'[t] = "done" /\ t \notin Range(doneQ')
    ]_vars

\* C16 witness: three tasks returned, one answered, one failed and one timed
\* out, each after its single attempt.
C16_Witness ==
  /\ pc = "returned"
  /\ total = 3
  /\ completed = 3
  /\ { ret[t] : t \in Tasks } = { "addrinfo", "gaierror", "TimeoutError" }

\* C17: hits and completed change only in an iteration of the consuming
\* loop, by one outcome: a step of a task body (one that changes a task's
\* position, answer or outcome, or the limiter) leaves both unchanged, and
\* a task's finish touches no other task's answer, outcome or inputs; the
\* one other task it can move is the first waiter of the limiter, which
\* receives the permit.
C17_SingleWriter ==
  [][ /\ (tpc' # tpc \/ sem' # sem \/ ret' # ret \/ outcome' # outcome) =>
           /\ hits' = hits
           /\ completed' = completed
      /\ (hits' # hits \/ completed' # completed) =>
           /\ pc = "drain"
           /\ doneQ # <<>>
           /\ doneQ' = Tail(doneQ)
           /\ completed' = completed + 1
           /\ \/ hits' = hits
              \/ hits' = Append(hits, outcome[Head(doneQ)].fqdn)
      /\ \A t \in Tasks :
           (tpc[t] = "lookup" /\ tpc'[t] = "done") =>
             /\ tfqdn' = tfqdn
             /\ word_list' = word_list
             /\ \A u \in Tasks \ { t } :
                  /\ ret'[u] = ret[u]
                  /\ outcome'[u] = outcome[u]
                  /\ tpc'[u] # tpc[u] =>
                       /\ sem.waiters # <<>>
                       /\ u = Head(sem.waiters)
                       /\ tpc'[u] = "lookup"
    ]_vars

\* C17 witness: the loop has accumulated a hit while one task is in its
\* lookup and another waits for a permit.
C17_Witness ==
  /\ pc = "drain"
  /\ hits # <<>>
  /\ completed >= 1
  /\ InFlight >= 1
  /\ sem.waiters # <<>>

\* C18 (as claimed): a task waiting for a permit is ended with a negative
\* outcome once the timeout has elapsed. With one permit, every later task
\* waits while task 1 holds it; when task 1's lookup has used up the whole
\* timeout, the later tasks have waited that long, so none of them would go
\* on to a lookup or get an answer.
C18_WaitersTimeOut ==
  (sem.made /\ concurrency = 1 /\ Len(tpc) >= 1) =>
    (ret[1] = "TimeoutError" =>
       \A u \in Tasks \ { 1 } :
         /\ tpc[u] # "lookup"
         /\ ret[u] \in { "pending", "TimeoutError" })

\* C18 (amended): the timeout bounds the lookup wait only. A task waiting
\* for a permit stays waiting, without answer or outcome, until a finishing
\* task hands it the permit as the first waiter; a task becomes done only
\* from its lookup, with an answer, a failure or a timeout, the timeout
\* giving a negative outcome and a zero timeout leaving nothing else.
C18_OnlyLookupTimesOut ==
  [][ \A t \in Tasks :
        /\ tpc[t] = "waiting" =>
             /\ tpc'[t] \in { "waiting", "lookup" }
             /\ ret'[t] = "pending"
             /\ outcome'[t] = NoOutcome
        /\ (tpc[t] = "waiting" /\ tpc'[t] = "lookup") =>
             /\ t = Head(sem.waiters)
             /\ \E u \in Tasks : tpc[u] = "lookup" /\ tpc'[u] = "done"
        /\ (tpc[t] # "done" /\ tpc'[t] = "done") =>
             /\ tpc[t] = "lookup"
             /\ ret'[t] \in { "addrinfo", "gaierror", "TimeoutError" }
             /\ ret'[t] = "TimeoutError" =>
                  outcome'[t] = [kind |-> "result", fqdn |-> tfqdn[t], ok |-> FALSE]
             /\ timeout = 0 => ret'[t] = "TimeoutError"
    ]_vars

\* C18 witness: with one permit and a positive timeout, task 1's lookup
\* timed out and task 2, which waited for the permit all that time, went on
\* to its lookup and resolved.
C18_Witness ==
  /\ sem.made
  /\ concurrency = 1
  /\ timeout = 1
  /\ Len(tpc) >= 2
  /\ ret[1] = "TimeoutError"
  /\ ret[2] = "addrinfo"
  /\ outcome[2].ok

\* C19: whatever an earlier call left behind, a call of run_enum starts its
\* loop with a new limiter with all `concurrency` permits free, new tasks
\* without answers, an empty hit list and a zero counter, and returns what
\* a first call with its inputs and answers returns: the ascending list of
\* the names that resolved in this call.
C19_FreshEachCall ==
  /\ pc = "loop" =>
       /\ sem = [made |-> TRUE, value |-> concurrency, waiters |-> <<>>]
       /\ hits = <<>>
       /\ completed = 0
       /\ doneQ = <<>>
       /\ word_list = WordList(words)
       /\ total = Len(word_list)
       /\ tpc = [t \in 1..total |-> "created"]
       /\ ret = [t \in 1..total |-> "pending"]
       /\ outcome = [t \in 1..total |-> NoOutcome]
  /\ pc = "returned" =>
       /\ word_list = WordList(words)
       /\ tfqdn = [t \in Tasks |-> Fqdn(word_list[t], domain)]
       /\ Range(hits) = ResolvingNames
       /\ result = Canonical(ResolvingNames)

\* C19 witness: a later call, made after a call that returned names, is in
\* its loop with all its outcomes consumed, none of them positive.
C19_Witness ==
  /\ pc = "drain"
  /\ result # <<>>
  /\ total = 2
  /\ completed = total
  /\ hits = <<>>
  /\ \E t \in Tasks : ret[t] = "TimeoutError"

\* C20: with at least one permit and every started lookup ending, every
\* task waiting for a permit gets one and starts its lookup eventually,
\* wherever it stands in the queue.
C20_NoStarvation ==
  \A t \in 1..MaxCands :
    (concurrency >= 1 /\ t \in Tasks /\ tpc[t] = "waiting")
      ~> (t \in Tasks /\ tpc[t] = "lookup")

\* C20 witness: with one permit, the last of three tasks, queued behind the
\* second, has been handed the permit and is in its lookup.
C20_Witness ==
  /\ pc = "drain"
  /\ concurrency = 1
  /\ total = 3
  /\ tpc = << "done", "done", "lookup" >>
  /\ sem.waiters = <<>>

====
